---- MODULE Spec2Model ----
(***************************************************************************)
(* Model of the upload pipeline of nas-rclone-pro (src/main.py): the       *)
(* watchdog Handler starts one thread per file event, each thread runs     *)
(* process_file against a shared filesystem, settings file and sqlite      *)
(* history table.  Every step of process_file that touches shared state is *)
(* one action; the filesystem, the settings store, the history table, the  *)
(* external tool and the notification endpoints are the environment.       *)
(***************************************************************************)
EXTENDS Integers, Sequences, FiniteSets, TLC

(***************************************************************************)
(* Bounds of the model.                                                    *)
(***************************************************************************)
MaxSize == 2        \* file sizes range over 1..MaxSize
MaxEnv == 2         \* external changes (file writes/deletes, settings saves, history clears)
MaxId == 2          \* rows ever inserted into the history table

(***************************************************************************)
(* Program constants.                                                      *)
(***************************************************************************)
WATCH_DIR == "/watchdir"

\* the suffixes of process_file's endswith test, as written in the source
TRANSIENT_SUFFIXES == {".tmp", ".aria2", ".part", ".downloading", ".ds_store"}

DEFAULT_SETTINGS ==
    [ prevent_reupload     |-> TRUE,
      auto_delete          |-> TRUE,
      rclone_remote        |-> "",
      notify_email_enable  |-> FALSE,
      smtp_user            |-> "",
      email_to             |-> "",
      notify_bark_enable   |-> FALSE,
      bark_url             |-> "",
      notify_wechat_enable |-> FALSE,
      wechat_key           |-> "" ]

(***************************************************************************)
(* The environment's finite universe.                                      *)
(***************************************************************************)
\* worker threads started by Handler; a slot is reused once its thread has ended
Runs == {"t1", "t2"}

\* the slot used when the events are handled one after the other
Serial == {"t1"}

\* the paths events are delivered for
Paths == { "/watchdir/a.mkv",
           "/watchdir/sub/a.mkv",
           "/watchdir/sub/.DS_Store",
           "/watchdir/x.part" }

Sizes == 1..MaxSize

\* os.path.exists(p) is false / os.path.getsize(p) raises
NoFile == -1

\* return codes of the external tool (negative: killed by a signal)
ExitCodes == {-9, 0, 1}

\* value of the RCLONE_REMOTE environment variable
EnvRemotes == {"", "gd:/backup"}

Channels == {"email", "bark", "wechat"}

\* dictionaries that may be written to the settings file: every pipeline
\* switch, with the email and push channels configured
SettingsInputs ==
    [ prevent_reupload     : BOOLEAN,
      auto_delete          : BOOLEAN,
      rclone_remote        : {"", "gd:"},
      notify_email_enable  : {TRUE},
      smtp_user            : {"nas@qq.com"},
      email_to             : {"me@qq.com"},
      notify_bark_enable   : {TRUE},
      bark_url             : {"https://api.day.app/k"},
      notify_wechat_enable : {FALSE},
      wechat_key           : {""} ]

\* settings files that differ in the notification channels only: every
\* combination of the three switches, with and without the parameters
NotifySettings ==
    [ prevent_reupload     : {TRUE},
      auto_delete          : {TRUE},
      rclone_remote        : {"gd:"},
      notify_email_enable  : BOOLEAN,
      smtp_user            : {"nas@qq.com"},
      email_to             : {"", "me@qq.com"},
      notify_bark_enable   : BOOLEAN,
      bark_url             : {"", "https://api.day.app/k"},
      notify_wechat_enable : BOOLEAN,
      wechat_key           : {"", "SCT1"} ]

(***************************************************************************)
(* String helpers: os.path.basename, os.path.dirname, str.endswith,        *)
(* str.lower, str.split(':', 1).                                           *)
(***************************************************************************)
RECURSIVE LastIndexOf(_, _, _)
LastIndexOf(str, ch, i) ==
    IF i = 0 THEN 0
    ELSE IF SubSeq(str, i, i) = ch THEN i
    ELSE LastIndexOf(str, ch, i - 1)

RECURSIVE FirstIndexOf(_, _, _)
FirstIndexOf(str, ch, i) ==
    IF i > Len(str) THEN 0
    ELSE IF SubSeq(str, i, i) = ch THEN i
    ELSE FirstIndexOf(str, ch, i + 1)

basename(p) ==
    LET i == LastIndexOf(p, "/", Len(p))
    IN  SubSeq(p, i + 1, Len(p))

dirname(p) ==
    LET i == LastIndexOf(p, "/", Len(p))
    IN  IF i <= 1 THEN SubSeq(p, 1, i) ELSE SubSeq(p, 1, i - 1)

endswith(str, suffix) ==
    /\ Len(str) >= Len(suffix)
    /\ SubSeq(str, Len(str) - Len(suffix) + 1, Len(str)) = suffix

LowerChar(c) ==
    CASE c = "A" -> "a" [] c = "B" -> "b" [] c = "C" -> "c" [] c = "D" -> "d"
      [] c = "E" -> "e" [] c = "F" -> "f" [] c = "G" -> "g" [] c = "H" -> "h"
      [] c = "I" -> "i" [] c = "J" -> "j" [] c = "K" -> "k" [] c = "L" -> "l"
      [] c = "M" -> "m" [] c = "N" -> "n" [] c = "O" -> "o" [] c = "P" -> "p"
      [] c = "Q" -> "q" [] c = "R" -> "r" [] c = "S" -> "s" [] c = "T" -> "t"
      [] c = "U" -> "u" [] c = "V" -> "v" [] c = "W" -> "w" [] c = "X" -> "x"
      [] c = "Y" -> "y" [] c = "Z" -> "z" [] OTHER -> c

RECURSIVE lower(_)
lower(str) ==
    IF Len(str) = 0 THEN ""
    ELSE LowerChar(SubSeq(str, 1, 1)) \o lower(SubSeq(str, 2, Len(str)))

Dirs == {dirname(p) : p \in Paths}

(***************************************************************************)
(* State.                                                                  *)
(***************************************************************************)
VARIABLES
    fs,            \* path -> size of the file there, or NoFile
    dirs,          \* the directories that exist
    settingsFile,  \* <<>> when SETTINGS_FILE does not exist, else <<its dictionary>>
    envRemote,     \* os.getenv('RCLONE_REMOTE', '')
    ledger,        \* rows of table history
    nextId,        \* next AUTOINCREMENT id
    now,           \* the wall clock as time.strftime would print it
    task,          \* thread -> program counter and local variables of process_file
    obs,           \* thread -> what the running process_file has done so far
    envLeft        \* external changes the environment may still make

vars == <<fs, dirs, settingsFile, envRemote, ledger, nextId, now, task, obs, envLeft>>

IdleTask ==
    [ pc       |-> "idle",
      filepath |-> "",
      filename |-> "",
      s        |-> DEFAULT_SETTINGS,
      filesize |-> NoFile,
      size1    |-> NoFile,
      size2    |-> NoFile,
      rc       |-> <<>>,
      status   |-> "" ]

NoObs ==
    [ invoked   |-> 0,        \* calls of subprocess.run
      spawned   |-> TRUE,     \* FALSE once subprocess.run raised
      wrote     |-> <<>>,     \* statuses this run committed to the history table
      removed   |-> <<>>,     \* <<os.remove(filepath) found the file>> once it was called
      rmdir     |-> FALSE,    \* os.rmdir(parent) removed the directory
      lookup    |-> <<>>,     \* <<the clock when the SELECT of the dedup block returned>>
      listed    |-> <<>>,     \* <<os.listdir(parent) was empty>> once it was read
      notified  |-> <<>>,     \* titles passed to send_notification
      attempted |-> {},       \* channels send_notification tried
      delivered |-> {},       \* channels whose send did not fail
      via       |-> "" ]      \* how the run ended

(***************************************************************************)
(* Settings store (load_settings / save_settings).                         *)
(***************************************************************************)
\* env_remote.split(':', 1)[0] + ":"
RemoteOfEnv(env_remote) ==
    LET i == FirstIndexOf(env_remote, ":", 1)
        head == IF i = 0 THEN env_remote ELSE SubSeq(env_remote, 1, i - 1)
    IN  head \o ":"

load_settings(file, env_remote) ==
    LET settings == IF file = <<>> THEN DEFAULT_SETTINGS ELSE file[1]
    IN  IF settings.rclone_remote = "" /\ env_remote # ""
        THEN [settings EXCEPT !.rclone_remote = RemoteOfEnv(env_remote)]
        ELSE settings

save_settings(new_settings) ==
    /\ envLeft > 0
    /\ settingsFile # <<new_settings>>
    /\ settingsFile' = <<new_settings>>
    /\ envLeft' = envLeft - 1
    /\ UNCHANGED <<fs, dirs, envRemote, ledger, nextId, now, task, obs>>

(***************************************************************************)
(* History table (init_db, the SELECT and INSERT OR REPLACE of             *)
(* process_file, clear_history).                                           *)
(***************************************************************************)
\* UNIQUE(filename, size)
SameKey(row, filename, size) == row.filename = filename /\ row.size = size

SelectAnyStatus(rows, filename, size) ==
    {row \in rows : SameKey(row, filename, size)}

SelectSuccessMisspelt(rows, filename, size) ==
    {row \in rows : SameKey(row, filename, size) /\ row.status = "Success"}

\* SELECT * FROM history WHERE filename=? AND size=? AND status='success'
SelectSuccess(rows, filename, size) ==
    {row \in rows : SameKey(row, filename, size) /\ row.status = "success"}

InsertOnly(rows, id, filename, size, upload_time, status) ==
    rows \cup {[id |-> id, filename |-> filename, size |-> size,
                upload_time |-> upload_time, status |-> status]}

InsertOrIgnore(rows, id, filename, size, upload_time, status) ==
    IF \E row \in rows : SameKey(row, filename, size) THEN rows
    ELSE rows \cup {[id |-> id, filename |-> filename, size |-> size,
                     upload_time |-> upload_time, status |-> status]}

\* INSERT OR REPLACE INTO history (filename, size, upload_time, status)
InsertOrReplace(rows, id, filename, size, upload_time, status) ==
    {row \in rows : ~SameKey(row, filename, size)}
        \cup {[id |-> id, filename |-> filename, size |-> size,
               upload_time |-> upload_time, status |-> status]}

clear_history ==
    /\ envLeft > 0
    /\ ledger # {}
    /\ ledger' = {}
    /\ envLeft' = envLeft - 1
    /\ UNCHANGED <<fs, dirs, settingsFile, envRemote, nextId, now, task, obs>>

(***************************************************************************)
(* Filesystem, as other processes change it.                               *)
(***************************************************************************)
\* os.listdir(d): the files in d and the sub-directories of d
listdir(d) ==
    {p \in Paths : dirname(p) = d /\ fs[p] # NoFile}
        \cup {e \in dirs : e # d /\ dirname(e) = d}

\* a downloader creates the file at p or writes more of it
FsWrite(p, size) ==
    /\ envLeft > 0
    /\ fs[p] # size
    /\ fs' = [fs EXCEPT ![p] = size]
    /\ dirs' = dirs \cup {dirname(p)}
    /\ envLeft' = envLeft - 1
    /\ UNCHANGED <<settingsFile, envRemote, ledger, nextId, now, task, obs>>

\* another process removes or renames the file at p
FsDelete(p) ==
    /\ envLeft > 0
    /\ fs[p] # NoFile
    /\ fs' = [fs EXCEPT ![p] = NoFile]
    /\ envLeft' = envLeft - 1
    /\ UNCHANGED <<dirs, settingsFile, envRemote, ledger, nextId, now, task, obs>>

(***************************************************************************)
(* Handler: one thread running process_file per file event.                *)
(***************************************************************************)
StartThread(r, path) ==
    /\ task[r].pc = "idle"
    /\ task' = [task EXCEPT ![r] = [IdleTask EXCEPT !.pc = "exists", !.filepath = path]]
    /\ obs' = [obs EXCEPT ![r] = NoObs]
    /\ UNCHANGED <<fs, dirs, settingsFile, envRemote, ledger, nextId, now, envLeft>>

on_createdAnyEvent(r, is_directory, src_path) == StartThread(r, src_path)

on_created(r, is_directory, src_path) ==
    IF ~is_directory THEN StartThread(r, src_path)
    ELSE task[r].pc = "idle" /\ UNCHANGED vars

on_moved(r, is_directory, dest_path) ==
    IF ~is_directory THEN StartThread(r, dest_path)
    ELSE task[r].pc = "idle" /\ UNCHANGED vars

\* the thread has returned from process_file (or died in it); its slot is free again
ThreadExit(r) ==
    /\ task[r].pc = "End"
    /\ task' = [task EXCEPT ![r] = IdleTask]
    /\ obs' = [obs EXCEPT ![r] = NoObs]
    /\ UNCHANGED <<fs, dirs, settingsFile, envRemote, ledger, nextId, now, envLeft>>

(***************************************************************************)
(* process_file, one action per access to shared state.                    *)
(***************************************************************************)
Others == <<settingsFile, envRemote, nextId, now, envLeft>>

\* the thread leaves process_file: by a return, by the except clause of the
\* upload block, or by an exception nothing catches
Finish(r, t, o, how) ==
    /\ task' = [task EXCEPT ![r] = [t EXCEPT !.pc = "End"]]
    /\ obs' = [obs EXCEPT ![r] = [o EXCEPT !.via = how]]

Goto(r, t, o, label) ==
    /\ task' = [task EXCEPT ![r] = [t EXCEPT !.pc = label]]
    /\ obs' = [obs EXCEPT ![r] = o]

\* filename.endswith(('.tmp', '.aria2', '.part', '.downloading', '.ds_store'))
IsTransient(filename) ==
    \E suffix \in TRANSIENT_SUFFIXES : endswith(filename, suffix)

\* if not os.path.exists(filepath): return; the suffix filter
Discover(r) ==
    LET t == task[r]
        name == basename(t.filepath)
    IN  /\ t.pc = "exists"
        /\ IF fs[t.filepath] = NoFile THEN Finish(r, t, obs[r], "missing")
           ELSE IF IsTransient(name)
                THEN Finish(r, [t EXCEPT !.filename = name], obs[r], "filtered")
                ELSE Goto(r, [t EXCEPT !.filename = name], obs[r], "load")
        /\ UNCHANGED <<fs, dirs, ledger>>
        /\ UNCHANGED Others

\* s = load_settings()
LoadSettings(r) ==
    LET t == task[r]
    IN  /\ t.pc = "load"
        /\ Goto(r, [t EXCEPT !.s = load_settings(settingsFile, envRemote)], obs[r], "getsize")
        /\ UNCHANGED <<fs, dirs, ledger>>
        /\ UNCHANGED Others

\* filesize = os.path.getsize(filepath); if s['prevent_reupload']
GetSize(r) ==
    LET t == task[r]
    IN  /\ t.pc = "getsize"
        /\ IF fs[t.filepath] = NoFile THEN Finish(r, t, obs[r], "crash")
           ELSE Goto(r, [t EXCEPT !.filesize = fs[t.filepath]], obs[r],
                     IF t.s.prevent_reupload THEN "dedup" ELSE "sample1")
        /\ UNCHANGED <<fs, dirs, ledger>>
        /\ UNCHANGED Others

\* where the run goes once the SELECT has returned `found`
AfterLookupSkipsNothing(found, auto_delete) == "sample1"

AfterLookupRecordsSkip(found, auto_delete) ==
    IF found # {} THEN "record" ELSE "sample1"

AfterLookupKeepsDuplicate(found, auto_delete) ==
    IF found # {} THEN "End" ELSE "sample1"

AfterLookupDeletesAlways(found, auto_delete) ==
    IF found # {} THEN "dupremove" ELSE "sample1"

AfterLookup(found, auto_delete) ==
    IF found # {} THEN (IF auto_delete THEN "dupremove" ELSE "End") ELSE "sample1"

DedupLookupSwallowsErrors(r, dbOk) ==
    LET t == task[r]
        o == [obs[r] EXCEPT !.lookup = <<now>>]
        found == IF dbOk THEN SelectSuccess(ledger, t.filename, t.filesize) ELSE {}
        next == AfterLookup(found, t.s.auto_delete)
    IN  /\ t.pc = "dedup"
        /\ IF next = "End" THEN Finish(r, t, o, "duplicate")
           ELSE Goto(r, t, o, next)
        /\ UNCHANGED <<fs, dirs, ledger>>
        /\ UNCHANGED Others

\* the dedup block: connect, SELECT, fetchone
DedupLookup(r, dbOk) ==
    LET t == task[r]
        o == [obs[r] EXCEPT !.lookup = <<now>>]
        found == SelectSuccess(ledger, t.filename, t.filesize)
        next == AfterLookup(found, t.s.auto_delete)
    IN  /\ t.pc = "dedup"
        /\ IF ~dbOk THEN Finish(r, t, obs[r], "crash")
           ELSE IF next = "End" THEN Finish(r, t, o, "duplicate")
           ELSE Goto(r, t, o, next)
        /\ UNCHANGED <<fs, dirs, ledger>>
        /\ UNCHANGED Others

\* try: os.remove(filepath) / except: pass; return
DupRemove(r) ==
    LET t == task[r]
        o == obs[r]
    IN  /\ t.pc = "dupremove"
        /\ fs' = [fs EXCEPT ![t.filepath] = NoFile]
        /\ Finish(r, t, [o EXCEPT !.removed = <<fs[t.filepath] # NoFile>>], "duplicate")
        /\ UNCHANGED <<dirs, ledger>>
        /\ UNCHANGED Others

is_file_free_unchecked(size1, size2) == size1 # NoFile /\ size2 # NoFile

is_file_free_unless_gone(size1, size2) == size2 = NoFile \/ size1 = size2

\* is_file_free: both getsize calls succeeded and size1 == size2
is_file_free(size1, size2) ==
    /\ size1 # NoFile
    /\ size2 # NoFile
    /\ size1 = size2

\* size1 = os.path.getsize(filepath), then time.sleep(duration)
Sample1(r) ==
    LET t == task[r]
    IN  /\ t.pc = "sample1"
        /\ IF fs[t.filepath] = NoFile THEN Finish(r, t, obs[r], "unstable")
           ELSE Goto(r, [t EXCEPT !.size1 = fs[t.filepath]], obs[r], "sample2")
        /\ UNCHANGED <<fs, dirs, ledger>>
        /\ UNCHANGED Others

Sample2IgnoresRemote(r) ==
    LET t == task[r]
        t2 == [t EXCEPT !.size2 = fs[t.filepath]]
    IN  /\ t.pc = "sample2"
        /\ IF ~is_file_free(t2.size1, t2.size2) THEN Finish(r, t2, obs[r], "unstable")
           ELSE Goto(r, t2, obs[r], "upload")
        /\ UNCHANGED <<fs, dirs, ledger>>
        /\ UNCHANGED Others

\* size2 = os.path.getsize(filepath); return size1 == size2; if not remote: return
Sample2(r) ==
    LET t == task[r]
        t2 == [t EXCEPT !.size2 = fs[t.filepath]]
    IN  /\ t.pc = "sample2"
        /\ IF ~is_file_free(t2.size1, t2.size2) THEN Finish(r, t2, obs[r], "unstable")
           ELSE IF t.s.rclone_remote = "" THEN Finish(r, t2, obs[r], "noremote")
           ELSE Goto(r, t2, obs[r], "upload")
        /\ UNCHANGED <<fs, dirs, ledger>>
        /\ UNCHANGED Others

StatusOfPositive(returncode) == IF returncode <= 0 THEN "success" ELSE "failed"

\* status = "success" if result.returncode == 0 else "failed"
StatusOf(returncode) == IF returncode = 0 THEN "success" ELSE "failed"

\* result = subprocess.run(cmd): it raises when the tool cannot be started,
\* otherwise the tool runs to its exit code (never 0 when the source file is gone)
Upload(r, spawnOk, returncode) ==
    LET t == task[r]
        o == [obs[r] EXCEPT !.invoked = @ + 1]
    IN  /\ t.pc = "upload"
        /\ IF ~spawnOk THEN Finish(r, t, [o EXCEPT !.spawned = FALSE], "exception")
           ELSE /\ fs[t.filepath] = NoFile => returncode # 0
                /\ Goto(r, [t EXCEPT !.rc = <<returncode>>, !.status = StatusOf(returncode)],
                        o, "record")
        /\ UNCHANGED <<fs, dirs, ledger>>
        /\ UNCHANGED Others

RecordSwallowsErrors(r, dbOk) ==
    LET t == task[r]
        o == obs[r]
        upload_time == now + 1
    IN  /\ t.pc = "record"
        /\ IF ~dbOk
           THEN /\ Goto(r, t, o, "notify")
                /\ UNCHANGED <<ledger, nextId, now>>
           ELSE /\ nextId <= MaxId
                /\ ledger' = InsertOrReplace(ledger, nextId, t.filename, t.filesize,
                                             upload_time, t.status)
                /\ nextId' = nextId + 1
                /\ now' = upload_time
                /\ Goto(r, t, [o EXCEPT !.wrote = Append(@, t.status)], "notify")
        /\ UNCHANGED <<fs, dirs, settingsFile, envRemote, envLeft>>

\* conn.execute("INSERT OR REPLACE ..."); conn.commit()
\* (upload_time is the clock read at the write; every write reads a later clock)
Record(r, dbOk) ==
    LET t == task[r]
        o == obs[r]
        upload_time == now + 1
    IN  /\ t.pc = "record"
        /\ IF ~dbOk
           THEN /\ Finish(r, t, o, "exception")
                /\ UNCHANGED <<ledger, nextId, now>>
           ELSE /\ nextId <= MaxId
                /\ ledger' = InsertOrReplace(ledger, nextId, t.filename, t.filesize,
                                             upload_time, t.status)
                /\ nextId' = nextId + 1
                /\ now' = upload_time
                /\ Goto(r, t, [o EXCEPT !.wrote = Append(@, t.status)], "notify")
        /\ UNCHANGED <<fs, dirs, settingsFile, envRemote, envLeft>>

(***************************************************************************)
(* send_notification: the three channels in source order, each inside its  *)
(* own try/except.  `failing` is the set of channels whose endpoint fails. *)
(***************************************************************************)
EmailEnabled(s) == s.notify_email_enable /\ s.smtp_user # "" /\ s.email_to # ""
BarkEnabled(s) == s.notify_bark_enable /\ s.bark_url # ""
WechatEnabled(s) == s.notify_wechat_enable /\ s.wechat_key # ""

\* one `if enabled: try: send except: log/pass` block; `guarded` is the try/except
SendOne(acc, enabled, channel, failing, guarded) ==
    IF acc.raised \/ ~enabled THEN acc
    ELSE IF channel \in failing
         THEN [acc EXCEPT !.attempted = @ \cup {channel}, !.raised = ~guarded]
         ELSE [acc EXCEPT !.attempted = @ \cup {channel}, !.delivered = @ \cup {channel}]

NothingSent == [attempted |-> {}, delivered |-> {}, raised |-> FALSE]

send_notification_unguarded(s, failing) ==
    SendOne(SendOne(SendOne(NothingSent,
        EmailEnabled(s), "email", failing, TRUE),
        BarkEnabled(s), "bark", failing, FALSE),
        WechatEnabled(s), "wechat", failing, TRUE)

send_notification(s, failing) ==
    SendOne(SendOne(SendOne(NothingSent,
        EmailEnabled(s), "email", failing, TRUE),
        BarkEnabled(s), "bark", failing, TRUE),
        WechatEnabled(s), "wechat", failing, TRUE)

\* the title process_file passes for each status (the source's titles, in English)
TitleOf(status) ==
    IF status = "success" THEN "Rclone upload succeeded" ELSE "Rclone upload failed"

ShouldDeleteAnyStatus(status, auto_delete) == auto_delete

ShouldDeleteAnySetting(status, auto_delete) == status = "success"

\* if status == "success": ... if s['auto_delete']: os.remove(filepath)
ShouldDelete(status, auto_delete) == status = "success" /\ auto_delete

\* send_notification(title, content) of either branch, then the auto_delete test
Notify(r, failing) ==
    LET t == task[r]
        o == obs[r]
        sent == send_notification(load_settings(settingsFile, envRemote), failing)
        o2 == [o EXCEPT !.notified = Append(@, TitleOf(t.status)),
                        !.attempted = sent.attempted,
                        !.delivered = sent.delivered]
    IN  /\ t.pc = "notify"
        /\ IF sent.raised THEN Finish(r, t, o2, "exception")
           ELSE IF ShouldDelete(t.status, t.s.auto_delete) THEN Goto(r, t, o2, "remove")
           ELSE Finish(r, t, o2, "done")
        /\ UNCHANGED <<fs, dirs, ledger>>
        /\ UNCHANGED Others

\* os.remove(filepath); FileNotFoundError goes to the except clause of the upload block
Remove(r) ==
    LET t == task[r]
        o == obs[r]
    IN  /\ t.pc = "remove"
        /\ IF fs[t.filepath] = NoFile
           THEN /\ Finish(r, t, [o EXCEPT !.removed = <<FALSE>>], "exception")
                /\ UNCHANGED fs
           ELSE /\ fs' = [fs EXCEPT ![t.filepath] = NoFile]
                /\ Goto(r, t, [o EXCEPT !.removed = <<TRUE>>], "listdir")
        /\ UNCHANGED <<dirs, ledger>>
        /\ UNCHANGED Others

ShouldRmdirAnywhere(listing, parent) == listing = {}

\* not os.listdir(parent) and parent != WATCH_DIR
ShouldRmdir(listing, parent) == listing = {} /\ parent # WATCH_DIR

\* parent = os.path.dirname(filepath); os.listdir(parent) (inside try/except: pass)
ListDir(r) ==
    LET t == task[r]
        o == obs[r]
        parent == dirname(t.filepath)
        listing == listdir(parent)
    IN  /\ t.pc = "listdir"
        /\ IF parent \notin dirs THEN Finish(r, t, o, "done")
           ELSE IF ShouldRmdir(listing, parent)
                THEN Goto(r, t, [o EXCEPT !.listed = <<listing = {}>>], "rmdir")
                ELSE Finish(r, t, [o EXCEPT !.listed = <<listing = {}>>], "done")
        /\ UNCHANGED <<fs, dirs, ledger>>
        /\ UNCHANGED Others

\* os.rmdir(parent): OSError on a missing or non-empty directory, swallowed
RmDir(r) ==
    LET t == task[r]
        o == obs[r]
        parent == dirname(t.filepath)
        ok == parent \in dirs /\ listdir(parent) = {}
    IN  /\ t.pc = "rmdir"
        /\ dirs' = IF ok THEN dirs \ {parent} ELSE dirs
        /\ Finish(r, t, [o EXCEPT !.rmdir = ok], "done")
        /\ UNCHANGED <<fs, ledger>>
        /\ UNCHANGED Others

(***************************************************************************)
(* The system.                                                             *)
(***************************************************************************)
Init ==
    /\ fs = [p \in Paths |-> NoFile]
    /\ dirs = {WATCH_DIR}
    /\ settingsFile = <<>>
    /\ envRemote \in EnvRemotes
    /\ ledger = {}
    /\ nextId = 1
    /\ now = 0
    /\ task = [r \in Runs |-> IdleTask]
    /\ obs = [r \in Runs |-> NoObs]
    /\ envLeft = MaxEnv

\* what other processes and the administrator do
Environment ==
    \/ \E p \in Paths, size \in Sizes : FsWrite(p, size)
    \/ \E p \in Paths : FsDelete(p)
    \/ \E new_settings \in SettingsInputs : save_settings(new_settings)
    \/ clear_history

\* the watchdog observer delivering an event to Handler: a file event carries
\* the path of a file, a directory event the path of a directory
Event(r) ==
    \/ \E d \in BOOLEAN : \E p \in (IF d THEN Dirs ELSE Paths) : on_created(r, d, p)
    \/ \E d \in BOOLEAN : \E p \in (IF d THEN Dirs ELSE Paths) : on_moved(r, d, p)

\* one step of the thread running process_file
Pipeline(r) ==
    \/ Discover(r)
    \/ LoadSettings(r)
    \/ GetSize(r)
    \/ \E dbOk \in BOOLEAN : DedupLookup(r, dbOk)
    \/ DupRemove(r)
    \/ Sample1(r)
    \/ Sample2(r)
    \/ \E spawnOk \in BOOLEAN, returncode \in ExitCodes : Upload(r, spawnOk, returncode)
    \/ \E dbOk \in BOOLEAN : Record(r, dbOk)
    \/ \E failing \in SUBSET Channels : Notify(r, failing)
    \/ Remove(r)
    \/ ListDir(r)
    \/ RmDir(r)
    \/ ThreadExit(r)

\* the events handled one after the other
Next ==
    \/ Environment
    \/ \E r \in Serial : Event(r)
    \/ \E r \in Serial : Pipeline(r)

Spec == Init /\ [][Next]_vars

(***************************************************************************)
(* Overlapping threads: two finished downloads of the same name and size   *)
(* lie in the watch directory and in a sub-directory, and the events for   *)
(* them are handled by threads that run at the same time.                  *)
(***************************************************************************)
InitConc ==
    /\ fs = [p \in Paths |-> IF basename(p) = "a.mkv" THEN 1 ELSE NoFile]
    /\ dirs = Dirs
    /\ settingsFile = <<>>
    /\ envRemote \in EnvRemotes
    /\ ledger = {}
    /\ nextId = 1
    /\ now = 0
    /\ task = [r \in Runs |-> IdleTask]
    /\ obs = [r \in Runs |-> NoObs]
    /\ envLeft = 0

NextConc ==
    \/ \E r \in Runs : Event(r)
    \/ \E r \in Runs : Pipeline(r)

SpecConc == InitConc /\ [][NextConc]_vars

(***************************************************************************)
(* Notification channels: the same two files, handled one after the other, *)
(* under every settings file of NotifySettings.  The thread is scheduled   *)
(* fairly and every call it makes returns.                                 *)
(***************************************************************************)
InitNotify ==
    /\ fs = [p \in Paths |-> IF basename(p) = "a.mkv" THEN 1 ELSE NoFile]
    /\ dirs = Dirs
    /\ settingsFile \in {<<new_settings>> : new_settings \in NotifySettings}
    /\ envRemote = ""
    /\ ledger = {}
    /\ nextId = 1
    /\ now = 0
    /\ task = [r \in Runs |-> IdleTask]
    /\ obs = [r \in Runs |-> NoObs]
    /\ envLeft = 0

NextNotify ==
    \/ \E r \in Serial : Event(r)
    \/ \E r \in Serial : Pipeline(r)

SpecNotify ==
    InitNotify /\ [][NextNotify]_vars /\ \A r \in Serial : WF_vars(Pipeline(r))

(***************************************************************************)
(* Properties.                                                             *)
(***************************************************************************)
\* thread r takes a step of process_file
Steps(r) == task'[r] # task[r]

\* the history table holds a success row for the name and size the run looked up
HasSuccessRow(r) ==
    SelectSuccess(ledger, basename(task[r].filepath), task[r].filesize) # {}

\* C1 (idempotent skip): a run with prevent_reupload set whose file name and
\* size match a success row of the history table goes from the lookup to its
\* end (deleting the duplicate on the way when auto_delete is set) without
\* calling the external tool, and none of its steps changes the history table.
C1_IdempotentSkip ==
    [][\A r \in Runs :
        LET hit == /\ task[r].pc = "dedup"
                   /\ task[r].s.prevent_reupload
                   /\ HasSuccessRow(r)
            skipping == hit \/ task[r].pc = "dupremove"
        IN  (skipping /\ Steps(r)) =>
                /\ task'[r].pc \in {"dupremove", "End"}
                /\ hit /\ task'[r].pc = "dupremove" => task[r].s.auto_delete
                /\ ledger' = ledger
                /\ obs'[r].invoked = 0
                /\ obs'[r].wrote = <<>>
                /\ obs'[r].notified = <<>>]_vars

\* a run has ended as a duplicate of a success row that is still in the table
C1_Witness ==
    \E r \in Runs :
        /\ task[r].pc = "End"
        /\ obs[r].via = "duplicate"
        /\ task[r].s.prevent_reupload
        /\ HasSuccessRow(r)

\* C2 (stability enforcement): when the second size sample differs from the
\* first one, the run has ended as unstable and has never called the tool.
C2_UnstableNeverUploads ==
    \A r \in Runs :
        (/\ task[r].size1 # NoFile
         /\ task[r].size2 # NoFile
         /\ task[r].size2 # task[r].size1)
        => /\ task[r].pc = "End"
           /\ obs[r].via = "unstable"
           /\ obs[r].invoked = 0

\* the file grew between the two samples
C2_Witness ==
    \E r \in Runs : task[r].size1 # NoFile /\ task[r].size2 > task[r].size1

\* C3 (failure retains file): no step of a run whose upload status is failed
\* removes a file or a directory, whatever auto_delete says.
C3_FailureRetainsFile ==
    [][\A r \in Runs :
        (task[r].status = "failed" /\ Steps(r)) => (fs' = fs /\ dirs' = dirs)]_vars

\* a failed run has ended with auto_delete set and its file is still there
C3_Witness ==
    \E r \in Runs :
        /\ task[r].pc = "End"
        /\ task[r].status = "failed"
        /\ task[r].s.auto_delete
        /\ obs[r].wrote = <<"failed">>
        /\ fs[task[r].filepath] = task[r].filesize

\* C4 (tool spawn failure): a run whose subprocess.run raised has, at its
\* end, written a failed row and sent the failure notification.
C4_SpawnFailureRecorded ==
    \A r \in Runs :
        (task[r].pc = "End" /\ ~obs[r].spawned)
        => /\ obs[r].wrote = <<"failed">>
           /\ obs[r].notified = <<TitleOf("failed")>>

\* the suffix test of the specification: case-insensitive
IsTransientAnyCase(filename) == IsTransient(lower(filename))

\* C5 (transient-name filter): a run on a file whose name ends in a transient
\* suffix, compared case-insensitively, gets no further than the filter.
C5_TransientNeverProcessed ==
    \A r \in Runs :
        (task[r].pc # "idle" /\ IsTransientAnyCase(basename(task[r].filepath)))
        => /\ task[r].pc \in {"exists", "End"}
           /\ obs[r].via \in {"", "missing", "filtered"}
           /\ obs[r].invoked = 0
           /\ obs[r].wrote = <<>>

\* os.remove(filepath) has been called by the run: it deleted the file or
\* found it already gone
FileGone(r) == obs[r].removed # <<>>

C7_ParentDirCleanup ==
    [][\A r \in Runs :
        LET parent == dirname(task[r].filepath)
            empty == parent \in dirs /\ listdir(parent) = {}
        IN  Steps(r) =>
              /\ task[r].pc = "listdir" =>
                    /\ task'[r].pc = "rmdir" <=> (empty /\ parent # WATCH_DIR)
                    /\ task'[r].pc \in {"rmdir", "End"}
                    /\ dirs' = dirs
              /\ task[r].pc = "rmdir" =>
                    /\ dirs' = (IF empty THEN dirs \ {parent} ELSE dirs)
                    /\ parent # WATCH_DIR
                    /\ task'[r].pc = "End"
                    /\ obs'[r].via = "done"
                    /\ obs'[r].wrote = <<"success">>
                    /\ ledger' = ledger
              /\ task[r].pc \notin {"listdir", "rmdir"} => dirs' = dirs]_vars

\* a file raced into the parent between os.listdir and os.rmdir: the rmdir
\* failed and the run ended with its success recorded
C7_Witness ==
    \E r \in Runs :
        /\ task[r].pc = "End"
        /\ obs[r].via = "done"
        /\ obs[r].removed = <<TRUE>>
        /\ obs[r].listed = <<TRUE>>
        /\ dirname(task[r].filepath) # WATCH_DIR
        /\ ~obs[r].rmdir
        /\ dirname(task[r].filepath) \in dirs
        /\ \E row \in ledger : row.status = "success" /\ row.filename = task[r].filename

\* UNIQUE(filename, size)
UniqueKeys ==
    \A a, b \in ledger : SameKey(a, b.filename, b.size) => a = b

\* C8 (ledger upsert): the history table never holds two rows of one
\* (filename, size) key, and every committed write leaves, as the only row of
\* its key, a row with the status that write carried - so after two writes to
\* a key the row has the status of the later one.
C8_LedgerUpsert ==
    /\ [] UniqueKeys
    /\ [][\A r \in Runs :
            (task[r].pc = "record" /\ task'[r].pc = "notify") =>
                LET rows == {row \in ledger' : SameKey(row, task[r].filename, task[r].filesize)}
                IN  /\ Cardinality(rows) = 1
                    /\ \A row \in rows : row.status = task[r].status
                    /\ \A row \in ledger' \ rows : row \in ledger]_vars

\* two threads alive at the same time have written different statuses to the
\* same key, and the one row of the key is the second write
C8_Witness ==
    \E r1, r2 \in Runs :
        /\ r1 # r2
        /\ obs[r1].wrote = <<"success">>
        /\ obs[r2].wrote = <<"failed">>
        /\ task[r1].filename = task[r2].filename
        /\ task[r1].filesize = task[r2].filesize
        /\ \E row \in ledger :
              /\ SameKey(row, task[r1].filename, task[r1].filesize)
              /\ row.status = "failed"
              /\ row.id = 2

\* the channels whose `if` of send_notification is true under settings s
EnabledChannels(s) ==
    {c \in Channels : \/ c = "email" /\ EmailEnabled(s)
                      \/ c = "bark" /\ BarkEnabled(s)
                      \/ c = "wechat" /\ WechatEnabled(s)}

\* C9 (notification isolation): whichever channels fail, send_notification
\* attempts every channel enabled in the settings it loads, nothing it raises
\* reaches process_file (the run goes on to the cleanup or to its normal end
\* exactly as its status and auto_delete say), the history table is left as
\* it is, and the run reaches its end.
C9_NotificationIsolation ==
    /\ [][\A r \in Runs :
            (task[r].pc = "notify" /\ Steps(r)) =>
                /\ obs'[r].attempted = EnabledChannels(load_settings(settingsFile, envRemote))
                /\ obs'[r].delivered \subseteq obs'[r].attempted
                /\ obs'[r].notified = <<TitleOf(task[r].status)>>
                /\ IF task[r].status = "success" /\ task[r].s.auto_delete
                   THEN task'[r].pc = "remove"
                   ELSE task'[r].pc = "End" /\ obs'[r].via = "done"
                /\ ledger' = ledger]_vars
    /\ \A r \in Serial : (task[r].pc = "notify") ~> (task[r].pc = "End")

\* all three channels were enabled, email and bark failed, wechat was still
\* delivered, and the run has ended with its row in the history table
C9_Witness ==
    \E r \in Runs :
        /\ task[r].pc = "End"
        /\ obs[r].attempted = Channels
        /\ obs[r].delivered = {"wechat"}
        /\ \E row \in ledger : SameKey(row, task[r].filename, task[r].filesize)
                                /\ row.status = task[r].status

\* the status the specification gives a return code
ExpectedStatus(returncode) == IF returncode = 0 THEN "success" ELSE "failed"

PassedStabilityGate(r) == is_file_free(task[r].size1, task[r].size2)

\* C11 (stability before dedup): a run performs the lookup in the history
\* table only after is_file_free has judged the file stable, so a run that is
\* on the duplicate path (removing the duplicate, or ended as duplicate) has
\* passed the stability check.
C11_StabilityBeforeDedup ==
    \A r \in Runs :
        /\ task[r].pc = "dedup" => PassedStabilityGate(r)
        /\ (task[r].pc = "dupremove" \/ obs[r].via = "duplicate") => PassedStabilityGate(r)

\* C12 (cleanup before notification): in a run whose upload succeeded the
\* cleanup starts only after the row was written, and the success notification
\* is dispatched only after the cleanup that auto_delete asks for.
C12_CleanupBeforeNotification ==
    \A r \in Runs :
        task[r].status = "success" =>
            /\ obs[r].removed # <<>> => obs[r].wrote = <<"success">>
            /\ obs[r].notified # <<>> =>
                  /\ obs[r].wrote = <<"success">>
                  /\ task[r].s.auto_delete => obs[r].removed # <<>>

\* C13 (recorded size): the row a run writes carries the size that the
\* stability gate observed as stable right before the tool was called (the
\* second sample of is_file_free), also when the file grew between the size
\* read at discovery and the first sample.
C13_RecordedSizeIsStableSize ==
    [][\A r \in Runs :
        (task[r].pc = "record" /\ task'[r].pc = "notify") =>
            \E row \in ledger' \ ledger :
                /\ row.filename = task[r].filename
                /\ row.size = task[r].size2]_vars

\* the rows of the history table with the key the run looked up, by status
PriorRows(r, status) ==
    {row \in ledger : /\ row.filename = basename(task[r].filepath)
                      /\ row.size = task[r].filesize
                      /\ row.status = status}

\* C14 (dedup policy): with prevent_reupload set, the lookup skips the file
\* only when the table holds a success row of its name and size; when it
\* holds a failed row and no success row the run goes on to the stability
\* check, from a stable file with a remote configured to the tool, and the
\* tool is called.
C14_FailedRowNeverSkips ==
    [][\A r \in Runs :
        Steps(r) =>
            /\ (task[r].pc = "dedup" /\ task[r].s.prevent_reupload) =>
                  /\ (task'[r].pc = "dupremove" \/ obs'[r].via = "duplicate")
                        => PriorRows(r, "success") # {}
                  /\ (PriorRows(r, "success") = {} /\ obs'[r].via # "crash")
                        => task'[r].pc = "sample1"
            /\ (/\ task[r].pc = "sample2"
                /\ fs[task[r].filepath] = task[r].size1
                /\ task[r].s.rclone_remote # "") => task'[r].pc = "upload"
            /\ task[r].pc = "upload" => obs'[r].invoked = 1]_vars

\* a run found only a failed row for its name and size and has called the tool
C14_Witness ==
    \E r \in Runs :
        /\ task[r].s.prevent_reupload
        /\ PriorRows(r, "failed") # {}
        /\ PriorRows(r, "success") = {}
        /\ task[r].pc = "record"
        /\ obs[r].invoked = 1

\* C15 (record lifecycle): the history table gains or replaces a row only in
\* the write step of a run whose call of the tool has returned (the only other
\* change is the clearing of the whole table); a run that has written has
\* called the tool once and got its return code; runs that end as filtered,
\* unstable or duplicate (or on a missing file, a failed lookup or an empty
\* remote) have written nothing.
C15_RowsOnlyAfterToolReturned ==
    /\ [](\A r \in Runs :
            /\ obs[r].wrote # <<>> =>
                  /\ task[r].rc # <<>>
                  /\ obs[r].invoked = 1
                  /\ obs[r].spawned
            /\ obs[r].via \in {"missing", "filtered", "crash", "duplicate", "unstable", "noremote"}
                  => obs[r].wrote = <<>>)
    /\ [][ledger' # ledger =>
            \/ ledger' = {} /\ task' = task
            \/ \E r \in Runs :
                  /\ task[r].pc = "record"
                  /\ task'[r].pc = "notify"
                  /\ task[r].rc # <<>>
                  /\ obs[r].invoked = 1
                  /\ \A row \in ledger' \ ledger : row.filename = task[r].filename]_vars

\* a run whose tool returned 1 has ended and its failed row, the first row ever
\* written, is the only row of the table
C15_Witness ==
    \E r \in Runs :
        /\ task[r].pc = "End"
        /\ task[r].rc = <<1>>
        /\ obs[r].wrote = <<"failed">>
        /\ ledger = {[id |-> 1, filename |-> task[r].filename, size |-> task[r].filesize,
                      upload_time |-> now, status |-> "failed"]}

\* the run died in the dedup block: its size was read, the lookup raised
LookupFailed(r) == obs[r].via = "crash" /\ task[r].filesize # NoFile

\* C16 (dedup-store unavailability): a run with prevent_reupload set whose
\* lookup in the history table raised has ended there: it never sampled the
\* file for stability, never called the tool, deleted nothing, wrote and
\* notified nothing; the step that ends it changes no file, no row and no
\* other run; and no run goes from the lookup on to the stability check while
\* the table holds a success row of its name and size.
C16_LookupFailureEndsRun ==
    /\ [](\A r \in Runs :
            LookupFailed(r) =>
                /\ task[r].pc = "End"
                /\ task[r].s.prevent_reupload
                /\ task[r].size1 = NoFile
                /\ obs[r].invoked = 0
                /\ obs[r].removed = <<>>
                /\ obs[r].wrote = <<>>
                /\ obs[r].notified = <<>>)
    /\ [][\A r \in Runs :
            (task[r].pc = "dedup" /\ Steps(r)) =>
                /\ task'[r].pc = "sample1" => PriorRows(r, "success") = {}
                /\ obs'[r].via = "crash" =>
                      /\ fs' = fs /\ dirs' = dirs /\ ledger' = ledger
                      /\ \A q \in Runs \ {r} : task'[q] = task[q] /\ obs'[q] = obs[q]]_vars

\* the lookup of one run raised while the table held a success row of its name
\* and size: its file is still there, and the other thread's run, alive at the
\* same time, has completed its upload
C16_Witness ==
    \E r, q \in Runs :
        /\ r # q
        /\ LookupFailed(r)
        /\ PriorRows(r, "success") # {}
        /\ fs[task[r].filepath] = task[r].filesize
        /\ task[q].pc = "End"
        /\ obs[q].via = "done"
        /\ obs[q].wrote = <<"success">>

\* C17 as stated (duplicate scenario): a run with prevent_reupload set that
\* the lookup found to be a duplicate of a success row has, at its end, called
\* no tool, deleted its local copy, written no row and sent no notification.
C17_DuplicateDeleted ==
    \A r \in Runs :
        (task[r].pc = "End" /\ obs[r].via = "duplicate")
        => /\ obs[r].invoked = 0
           /\ FileGone(r)
           /\ obs[r].wrote = <<>>
           /\ obs[r].notified = <<>>

\* C17 as amended: such a run deletes its local copy exactly when auto_delete
\* is set, and then at once - its next step after the lookup, before any
\* stability sample - after which the file does not exist; with auto_delete
\* not set the file is left alone; in both cases no tool is called, no row is
\* written, the table is not changed and no notification is sent.
C17_DuplicateDeletedIfAutoDelete ==
    /\ [](\A r \in Runs :
            (task[r].pc = "dupremove" \/ obs[r].via = "duplicate") =>
                /\ task[r].s.prevent_reupload
                /\ task[r].size1 = NoFile
                /\ obs[r].invoked = 0
                /\ obs[r].wrote = <<>>
                /\ obs[r].notified = <<>>
                /\ task[r].pc = "End" => (task[r].s.auto_delete <=> FileGone(r)))
    /\ [][\A r \in Runs :
            Steps(r) =>
                /\ (task[r].pc = "dedup" /\ obs'[r].via # "crash" /\ PriorRows(r, "success") # {}) =>
                      /\ task'[r].pc = (IF task[r].s.auto_delete THEN "dupremove" ELSE "End")
                      /\ fs' = fs
                      /\ ledger' = ledger
                /\ task[r].pc = "dupremove" =>
                      /\ fs' = [fs EXCEPT ![task[r].filepath] = NoFile]
                      /\ task'[r].pc = "End"
                      /\ ledger' = ledger]_vars

\* a duplicate was deleted: the run ended as duplicate with auto_delete set,
\* its os.remove found the file, and the success row is still in the table
C17_Witness ==
    \E r \in Runs :
        /\ task[r].pc = "End"
        /\ obs[r].via = "duplicate"
        /\ task[r].s.auto_delete
        /\ obs[r].removed = <<TRUE>>
        /\ fs[task[r].filepath] = NoFile
        /\ PriorRows(r, "success") # {}

\* C18 (single config snapshot per run): every decision of a run is taken
\* from the settings it loaded at its start, the channels send_notification
\* uses included: the channels a run has attempted are the ones enabled in
\* its snapshot, whatever was saved to the settings file in the meantime.
C18_SingleConfigSnapshot ==
    \A r \in Runs :
        obs[r].notified # <<>> => obs[r].attempted = EnabledChannels(task[r].s)

\* runs r and q work on the same (filename, size) key
SameKeyRuns(r, q) ==
    task[r].filename = task[q].filename /\ task[r].filesize = task[q].filesize

\* the rows of the history table with the key of run r
KeyRows(rows, r) == {row \in rows : SameKey(row, task[r].filename, task[r].filesize)}

\* C19 (last writer wins under concurrency): when a run commits its write to
\* a key that another run, still alive, has already written, the write goes
\* through on top of the other run's row: afterwards the key has exactly one
\* row, that row is new, carries the status and the clock of this later write
\* and a later time than the row it replaced, and the earlier run's record of
\* its own committed write is untouched.  So while both runs have written, the
\* key has one row, it is the latest row of the table, and its status is the
\* status of the write committed last.  A row of the key already in the table
\* never keeps a write from being committed (the only writes that fail are
\* those the store itself refuses, whatever the table holds).
C19_LastWriterWins ==
    /\ [](\A r, q \in Runs :
            (r # q /\ obs[r].wrote # <<>> /\ obs[q].wrote # <<>> /\ SameKeyRuns(r, q)) =>
                /\ Cardinality(KeyRows(ledger, r)) = 1
                /\ \A row \in KeyRows(ledger, r) :
                      /\ row.id = nextId - 1
                      /\ row.upload_time = now
                      /\ row.status \in {task[r].status, task[q].status})
    /\ [](\A r \in Runs :
            (task[r].pc = "record" /\ KeyRows(ledger, r) # {} /\ nextId <= MaxId) =>
                ENABLED (Record(r, TRUE) /\ obs'[r].wrote = <<task[r].status>>))
    /\ [][\A r, q \in Runs :
            (/\ r # q
             /\ task[r].pc = "record" /\ task'[r].pc = "notify"
             /\ obs[q].wrote # <<>>
             /\ SameKeyRuns(r, q)) =>
                /\ Cardinality(KeyRows(ledger', r)) = 1
                /\ \A row \in KeyRows(ledger', r) :
                      /\ row \notin ledger
                      /\ row.status = task[r].status
                      /\ row.upload_time = now'
                      /\ \A old \in KeyRows(ledger, r) : old.upload_time < row.upload_time
                /\ obs'[r].wrote = <<task[r].status>>
                /\ obs'[q] = obs[q]]_vars

\* two threads were past their uploads of the same key at the same time: the
\* first committed failed, the second committed success on top of it, and
\* the one row of the key is the second write
C19_Witness ==
    \E r, q \in Runs :
        /\ r # q
        /\ SameKeyRuns(r, q)
        /\ task[r].pc = "notify"
        /\ task[q].pc = "notify"
        /\ obs[q].wrote = <<"failed">>
        /\ obs[r].wrote = <<"success">>
        /\ KeyRows(ledger, r) = {[id |-> 2, filename |-> task[r].filename,
                                  size |-> task[r].filesize, upload_time |-> 2,
                                  status |-> "success"]}

\* the state of the specification's FileTask state machine a thread is in:
\* Discovered 1, Filtered 2, StabilityChecked 3, DedupChecked 4, Uploaded 5,
\* Cleanup 6, Notified 7, End 8
StageOf(pc) ==
    CASE pc = "exists" -> 1
      [] pc \in {"load", "getsize"} -> 2
      [] pc \in {"sample1", "sample2"} -> 3
      [] pc \in {"dedup", "dupremove"} -> 4
      [] pc \in {"upload", "record"} -> 5
      [] pc \in {"remove", "listdir", "rmdir"} -> 6
      [] pc = "notify" -> 7
      [] OTHER -> 8

\* C20 (run progress), its safety part: every step of a started run moves
\* forward in the order Discovered, Filtered, StabilityChecked, DedupChecked,
\* Uploaded, Cleanup, Notified, End, never back to an earlier state; and a run
\* enters End in one of four ways: filtered out (at the existence test or the
\* suffix filter), unstable, duplicate, or after its upload with the
\* notification sent.
C20_ForwardOnlyProgress ==
    [][\A r \in Runs :
        (Steps(r) /\ task[r].pc \notin {"idle", "End"}) =>
            /\ StageOf(task'[r].pc) >= StageOf(task[r].pc)
            /\ task'[r].pc = "End" =>
                  \/ obs'[r].via \in {"missing", "filtered", "unstable", "duplicate"}
                  \/ /\ task[r].rc # <<>>
                     /\ obs'[r].notified # <<>>]_vars

\* C21 (runs are started only by events): a thread enters process_file only
\* from idle, at its first statement, on the path of a file, in a step that
\* starts no other thread and changes nothing else (one run per file event);
\* no thread ever runs on the path of a directory; a running thread keeps
\* its path; and a thread that has ended - as unstable or in any other way -
\* takes no further step of process_file: it only frees its slot, and the
\* path is processed again only by a thread a later event starts.
C21_RunsOnlyFromEvents ==
    /\ [](\A r \in Runs : task[r].filepath \in Paths \cup {""})
    /\ [][\A r \in Runs :
            Steps(r) =>
                /\ task'[r].pc = "exists" =>
                      /\ task[r].pc = "idle"
                      /\ task'[r].filepath \in Paths
                      /\ obs'[r] = NoObs
                      /\ \A q \in Runs \ {r} : task'[q] = task[q]
                      /\ UNCHANGED <<fs, dirs, ledger, settingsFile>>
                /\ task[r].pc = "idle" => task'[r].pc = "exists"
                /\ task[r].pc = "End" => task'[r] = IdleTask
                /\ task[r].pc \notin {"idle", "End"} => task'[r].filepath = task[r].filepath]_vars

\* a run has ended as unstable (the file went away under its samples) and
\* stays ended, while a later event for the same path has started the other
\* thread on it
C21_Witness ==
    \E r, q \in Runs :
        /\ r # q
        /\ task[r].pc = "End"
        /\ obs[r].via = "unstable"
        /\ task[r].size1 # NoFile
        /\ task[q].filepath = task[r].filepath
        /\ task[q].pc = "exists"
        /\ fs[task[q].filepath] = NoFile

\* the file was gone at a size-sampling point of the run: at the size read of
\* discovery, at the first sample or at the second sample of is_file_free
GoneAtGetSize(r) == obs[r].via = "crash" /\ task[r].filesize = NoFile
GoneAtSample1(r) == obs[r].via = "unstable" /\ task[r].size1 = NoFile
GoneAtSample2(r) ==
    task[r].pc \notin {"idle", "sample2"} /\ task[r].size1 # NoFile /\ task[r].size2 = NoFile

\* C22 (fail-closed on a vanished file): a run that found its file gone at a
\* size-sampling point has ended there, without a call of the tool, a row or
\* a notification; at the two samples of is_file_free it has ended by the
\* return of an unstable file, not by an exception; and no run is past the
\* stability check without three successful size reads, the last two equal.
C22_VanishedFileEndsRun ==
    \A r \in Runs :
        /\ (GoneAtGetSize(r) \/ GoneAtSample1(r) \/ GoneAtSample2(r)) =>
              /\ task[r].pc = "End"
              /\ obs[r].invoked = 0
              /\ obs[r].wrote = <<>>
              /\ obs[r].notified = <<>>
        /\ (GoneAtSample1(r) \/ GoneAtSample2(r)) => obs[r].via = "unstable"
        /\ (task[r].pc \in {"upload", "record", "notify", "remove", "listdir", "rmdir"}
               \/ obs[r].invoked > 0 \/ obs[r].via = "noremote") =>
              /\ task[r].filesize # NoFile
              /\ task[r].size1 # NoFile
              /\ task[r].size2 = task[r].size1

\* the file was removed between the two samples of is_file_free and the run
\* has ended as unstable
C22_Witness ==
    \E r \in Runs :
        /\ GoneAtSample2(r)
        /\ task[r].pc = "End"
        /\ obs[r].via = "unstable"
        /\ fs[task[r].filepath] = NoFile

(***************************************************************************)
(* The whole history in the state: the two files of the same name and size *)
(* under any settings file, each thread started by at most one event and   *)
(* kept as it ended, so that every run there has ever been is on record.   *)
(***************************************************************************)
InitOnce ==
    /\ fs = [p \in Paths |-> IF basename(p) = "a.mkv" THEN 1 ELSE NoFile]
    /\ dirs = Dirs
    /\ settingsFile \in {<<>>} \cup {<<new_settings>> : new_settings \in SettingsInputs}
    /\ envRemote \in EnvRemotes
    /\ ledger = {}
    /\ nextId = 1
    /\ now = 0
    /\ task = [r \in Runs |-> IdleTask]
    /\ obs = [r \in Runs |-> NoObs]
    /\ envLeft = 0

\* one step of process_file in thread r, up to its end
ProcessFile(r) ==
    \/ Discover(r)
    \/ LoadSettings(r)
    \/ GetSize(r)
    \/ \E dbOk \in BOOLEAN : DedupLookup(r, dbOk)
    \/ DupRemove(r)
    \/ Sample1(r)
    \/ Sample2(r)
    \/ \E spawnOk \in BOOLEAN, returncode \in ExitCodes : Upload(r, spawnOk, returncode)
    \/ \E dbOk \in BOOLEAN : Record(r, dbOk)
    \/ \E failing \in SUBSET Channels : Notify(r, failing)
    \/ Remove(r)
    \/ ListDir(r)
    \/ RmDir(r)

NextOnce ==
    \/ \E r \in Runs : Event(r)
    \/ \E r \in Runs : ProcessFile(r)

SpecOnce == InitOnce /\ [][NextOnce]_vars

\* the tool has exited 0 on the path of run r, in r itself or in another run
UploadedPath(r) ==
    \E q \in Runs : task[q].filepath = task[r].filepath /\ task[q].rc = <<0>>

UploadedKey(r) ==
    \E q \in Runs \ {r} : /\ SameKeyRuns(r, q)
                          /\ task[q].rc = <<0>>
                          /\ obs[q].wrote = <<"success">>

C24_DeleteOnlyStableFile ==
    \A r \in Runs :
        (task[r].pc = "dupremove" \/ obs[r].removed # <<>>) => PassedStabilityGate(r)

\* C25 as stated (success is not downgraded): with prevent_reupload set
\* throughout, a success row of the history table stays a success row of its
\* key under every write of every run; only the clearing of the table
\* removes it.
C25_SuccessNeverDowngraded ==
    [][\A row \in ledger :
          row.status = "success" =>
              \/ ledger' = {}
              \/ \E kept \in ledger' : /\ SameKey(kept, row.filename, row.size)
                                       /\ kept.status = "success"]_vars

\* C25 as amended: with prevent_reupload set, a success row is replaced only
\* by the write of a run that made its dedup lookup before that row was
\* committed (a run started concurrently with the one that wrote it), and
\* such a run does replace it, by a failed row when its own upload failed; a
\* run that makes its lookup once the row is committed finds it and writes
\* nothing.
C25_SuccessDowngradedOnlyByOverlappingRun ==
    /\ [][\A r \in Runs :
            (task[r].pc = "record" /\ task'[r].pc = "notify" /\ task[r].s.prevent_reupload) =>
                \A old \in PriorRows(r, "success") :
                    /\ obs[r].lookup # <<>>
                    /\ obs[r].lookup[1] < old.upload_time
                    /\ old \notin ledger'
                    /\ \E new \in ledger' : /\ SameKey(new, old.filename, old.size)
                                            /\ new.status = task[r].status]_vars
    /\ [][\A row \in ledger :
            (row.status = "success" /\ row \notin ledger') =>
                \E r \in Runs : /\ task[r].pc = "record"
                                /\ task'[r].pc = "notify"
                                /\ row \in PriorRows(r, "success")]_vars
    /\ [](\A r \in Runs :
            (/\ task[r].s.prevent_reupload
             /\ obs[r].lookup # <<>>
             /\ \E row \in PriorRows(r, "success") : row.upload_time <= obs[r].lookup[1])
            => obs[r].wrote = <<>>)

\* two runs for the same path passed the lookup before either had written; the
\* first uploaded, committed success and deleted the file; the upload of the
\* second then failed on the missing file and its failed row has replaced the
\* success row
C25_Witness ==
    \E r, q \in Runs :
        /\ r # q
        /\ task[r].filepath = task[q].filepath
        /\ task[q].s.prevent_reupload /\ task[r].s.prevent_reupload
        /\ obs[q].wrote = <<"success">>
        /\ obs[q].removed = <<TRUE>>
        /\ obs[r].lookup = <<0>>
        /\ task[r].rc = <<1>>
        /\ obs[r].wrote = <<"failed">>
        /\ KeyRows(ledger, r) = {[id |-> 2, filename |-> task[r].filename,
                                  size |-> task[r].filesize, upload_time |-> 2,
                                  status |-> "failed"]}

\* the tool of run r has returned and the write of its row has raised
WriteFailed(r) ==
    task[r].rc # <<>> /\ obs[r].wrote = <<>> /\ task[r].pc \notin {"record"}

\* C26 (record before notify): a run has called send_notification, or
\* os.remove after an upload, only with its row committed before; and a run
\* whose write raised after the tool had returned has ended in the except
\* clause with no notification attempted on any channel and no file or
\* directory deleted.
C26_RecordBeforeNotify ==
    \A r \in Runs :
        /\ (obs[r].notified # <<>> \/ obs[r].attempted # {}) =>
              /\ Len(obs[r].wrote) = 1
              /\ obs[r].notified = <<TitleOf(obs[r].wrote[1])>>
        /\ task[r].pc \in {"notify", "remove", "listdir", "rmdir"} => Len(obs[r].wrote) = 1
        /\ WriteFailed(r) =>
              /\ task[r].pc = "End"
              /\ obs[r].via = "exception"
              /\ obs[r].notified = <<>>
              /\ obs[r].attempted = {}
              /\ obs[r].removed = <<>>
              /\ ~obs[r].rmdir

\* the tool exited 0 with auto_delete set, the INSERT raised: the run has
\* ended with no row, no notification, and the file still in place
C26_Witness ==
    \E r \in Runs :
        /\ WriteFailed(r)
        /\ task[r].rc = <<0>>
        /\ task[r].s.auto_delete
        /\ task[r].pc = "End"
        /\ ledger = {}
        /\ fs[task[r].filepath] = task[r].filesize

\* the remote of the settings the run loaded is empty (no rclone_remote in the
\* settings file and no RCLONE_REMOTE in the environment)
NoRemote(r) == task[r].pc \notin {"idle", "exists", "load"} /\ task[r].s.rclone_remote = ""

\* C27 (unconfigured remote): a run whose settings have an empty remote never
\* calls the tool, writes no row and sends no notification; once it has passed
\* the filter, the dedup lookup and the stability check it ends there, with
\* nothing deleted; and a run ends at the remote test only with an empty
\* remote and a file judged stable.
C27_NoRemoteNoUpload ==
    \A r \in Runs :
        /\ NoRemote(r) =>
              /\ task[r].pc \in {"getsize", "dedup", "dupremove", "sample1", "sample2", "End"}
              /\ obs[r].invoked = 0
              /\ obs[r].wrote = <<>>
              /\ obs[r].notified = <<>>
              /\ (task[r].pc = "End" /\ PassedStabilityGate(r)) =>
                    /\ obs[r].via = "noremote"
                    /\ obs[r].removed = <<>>
                    /\ ~obs[r].rmdir
        /\ obs[r].via = "noremote" => (NoRemote(r) /\ PassedStabilityGate(r))

\* with no remote in the settings file or the environment, a run on a new,
\* stable file has ended at the remote test and the file is still there
C27_Witness ==
    \E r \in Runs :
        /\ envRemote = ""
        /\ NoRemote(r)
        /\ PassedStabilityGate(r)
        /\ task[r].s.prevent_reupload
        /\ task[r].pc = "End"
        /\ obs[r].via = "noremote"
        /\ fs[task[r].filepath] = task[r].filesize
        /\ ledger = {}
====
